---- MODULE Spec2Model ----
(***************************************************************************)
(* gpu_watch.py (the Sampler) and plot_gpu_usage.py (the Plotter) as state *)
(* machines.                                                               *)
(*                                                                         *)
(* Sampler: one action per step of main(): the start-up (argument          *)
(* handling, the one device-list query, opening the log and the header),   *)
(* the two telemetry queries of a tick, one iteration of the loop over the *)
(* memory rows, the flush, the sleep, and the two ways out of the loop     *)
(* (KeyboardInterrupt, an uncaught exception).  Text is modelled by        *)
(* tokens; Python's str.isdigit, int, str.strip and re.search are tables   *)
(* over those tokens.                                                      *)
(*                                                                         *)
(* A record of the log file is Header or <<ts, k>>, the k-th row handed to *)
(* the csv writer in the tick stamped ts; the seven fields of the rows of  *)
(* the tick in progress are held in tick_out.                              *)
(***************************************************************************)
EXTENDS Integers, Sequences, FiniteSets, TLC

\* ------------------------------------------------------------------ bounds
MaxTicks == 2
MaxMemLines == 2
MaxPmonLines == 1
MaxCsvRows == 2

VARIABLES
    \* the environment of the Sampler
    fs_exists,      \* os.path.exists(out_path)
    disk,           \* the log file's flushed content, a sequence of records
    devIndex,       \* the index the driver currently reports for each uuid
    clock,          \* wall clock, seconds
    \* main()'s state
    pc,             \* "idle", "mem", "pmon", "rows", "sleep", "interrupted", "raised"
    append,         \* args.append
    mode,           \* "none", "pid" (args.pid) or "match" (args.match)
    uuid_to_index,  \* main's uuid_to_index
    file_exists,    \* main's file_exists
    buf,            \* records written to f and not yet flushed
    ts,             \* main's ts
    mem_rows,       \* main's mem_rows
    pmon_by_pid,    \* main's pmon_by_pid
    i,              \* position of the for loop over mem_rows
    \* history
    tick_out,       \* the rows written in the tick in progress, with their mem row
    appended,       \* every record handed to the writer in this run
    run_base,       \* Len(disk) when this run opened the file
    ticks,          \* ticks begun
    \* the Plotter: its input, its arguments and main()'s state
    csv_header,     \* the file's header row, "" for an empty file
    csv_rows,       \* the file's data rows
    per_gpu,        \* args.per_gpu
    plot_cpu,       \* args.cpu
    pl_pc,          \* "start", "loaded", "done"
    loaded,         \* what auto_loader returned, or the exception it raised
    prev,           \* what it returned for the file before its rows were reordered
    permuted,       \* the file's rows have been reordered
    outcome         \* how main ended

pvars == <<csv_header, csv_rows, per_gpu, plot_cpu, pl_pc, loaded, prev, permuted, outcome>>

svars == <<fs_exists, disk, devIndex, clock, pc, append, mode, uuid_to_index,
           file_exists, buf, ts, mem_rows, pmon_by_pid, i, tick_out, appended,
           run_base, ticks>>

\* ------------------------------------------------------------------ text
Header == <<"header">>
OldContent == <<"old">>
None == "None"
ValueError == "ValueError"
NoMap == [u \in {} |-> ""]

SeqsUpTo(S, n) == UNION {[1..k -> S] : k \in 0..n}

IsPrefix(s, t) == Len(s) <= Len(t) /\ SubSeq(t, 1, Len(s)) = s

\* str.isdigit(): true of U+00B2 (written SUP2 here), which int() rejects
IsDigit(tok) == tok \in {"0", "1", "2", "5", "SUP2"}

\* str(int(tok)), or ValueError
PyInt(tok) ==
    CASE tok \in {"0", "1", "2", "5"} -> tok
      [] OTHER -> ValueError

\* "".join(ch for ch in used if ch.isdigit())
DigitsOf(tok) ==
    CASE tok = "7 MiB" -> "7"
      [] tok = "7" -> "7"
      [] OTHER -> ""

\* str.strip()
Strip(tok) ==
    CASE tok = "python train.py\n" -> "python train.py"
      [] tok = "bash\n" -> "bash"
      [] OTHER -> tok

\* re.compile(args.match).search(cmd), args.match being "train"
MatcherSearch(cmd) == cmd = "python train.py"

\* x or y
PyOr(x, y) == IF x = "" \/ x = None THEN y ELSE x

\* ------------------------------------------------------------------ inputs
Uuids == {"GPU-a", "GPU-b"}
DriverUuids == {"GPU-a"}
Indices == {"0", "1"}
PidTarget == "1"

MemLines ==
    {<<"1", "GPU-a", "7 MiB">>, <<"1", "GPU-b", "7 MiB">>, <<"2", "GPU-a", "[N/A]">>,
     <<"[N/A]", "GPU-a", "7 MiB">>, <<"1", "GPU-a">>}

PmonLines ==
    {<<"3", "1", "C", "0", "5", "-", "-", "python">>,
     <<"3", "1", "C", "-", "-", "-", "-", "python">>,
     <<"3", "-", "-", "-", "-", "-", "-", "-">>,
     <<"3", "SUP2", "C", "0", "5", "-", "-", "python">>,
     <<"3", "1", "C", "0">>,
     <<"#", "gpu", "pid", "type", "sm", "mem", "enc", "dec", "command">>}

PsOutputs == {"", "python train.py\n"}

\* what `nvidia-smi --query-gpu=index,uuid` prints: nothing (failure, timeout),
\* the driver's lines, or a line that does not split in two
DeviceListOutputs ==
    {<<>>} \cup {<< <<devIndex[u], u>> >> : u \in DriverUuids}
           \cup {<< <<devIndex[u], u, "x">> >> : u \in DriverUuids}

\* ------------------------------------------------------------------ functions
get_uuid_to_index(lines) ==
    LET good == {k \in 1..Len(lines) : Len(lines[k]) = 2}
        last(u) == CHOOSE k \in good :
                      /\ lines[k][2] = u
                      /\ \A j \in good : lines[j][2] = u => j <= k
    IN  [u \in {lines[k][2] : k \in good} |-> lines[last(u)][1]]

get_process_memory_rows(lines) ==
    LET kept == SelectSeq(lines, LAMBDA l : Len(l) >= 3)
    IN  [k \in 1..Len(kept) |->
            [pid |-> kept[k][1], uuid |-> kept[k][2],
             used |-> PyOr(DigitsOf(kept[k][3]), "0")]]

parse_pct(x) == IF PyInt(x) = ValueError THEN None ELSE PyInt(x)

get_pmon_snapshot(lines) ==
    LET kept == SelectSeq(lines, LAMBDA l :
                    /\ l[1] # "#"
                    /\ Len(l) >= 8
                    /\ ~(l[2] = "-" \/ ~IsDigit(l[2])))
    IN  [k \in 1..Len(kept) |->
            [gpu |-> kept[k][1], pid |-> kept[k][2],
             sm |-> parse_pct(kept[k][4]), mem |-> parse_pct(kept[k][5]),
             cmd |-> kept[k][8],
             raw_sm |-> kept[k][4], raw_mem |-> kept[k][5]]]

\* lines 156-164: the last row of a pid wins
BuildPmonByPid(rows) ==
    LET last(p) == CHOOSE k \in 1..Len(rows) :
                      /\ PyInt(rows[k].pid) = p
                      /\ \A j \in 1..Len(rows) : PyInt(rows[j].pid) = p => j <= k
    IN  [p \in {PyInt(rows[k].pid) : k \in 1..Len(rows)} |->
            [gpu |-> rows[last(p)].gpu, sm |-> rows[last(p)].sm,
             mem |-> rows[last(p)].mem, cmd |-> rows[last(p)].cmd,
             raw_sm |-> rows[last(p)].raw_sm, raw_mem |-> rows[last(p)].raw_mem]]

\* what get_process_memory_rows and get_pmon_snapshot can return in a tick
MemListings == {get_process_memory_rows(l) : l \in SeqsUpTo(MemLines, MaxMemLines)}
PmonSnapshots == {get_pmon_snapshot(l) : l \in SeqsUpTo(PmonLines, MaxPmonLines)}

get_cmd_for_pid(out) == PyOr(Strip(out), "")

\* pmon_by_pid.get(pid, {}).get(key)
PmonGet(pid, key) ==
    IF pid \in DOMAIN pmon_by_pid THEN pmon_by_pid[pid][key] ELSE None

\* match_pid, given what its get_cmd_for_pid call returned
match_pid(pid, cmd) ==
    CASE mode = "pid" -> pid = PidTarget
      [] mode = "none" -> TRUE
      [] OTHER -> MatcherSearch(cmd)

HeaderWanted_NewFileOnly == ~file_exists

\* line 145
HeaderWanted == ~file_exists \/ ~append

PctField_Truthy(v) == IF v # None /\ v # "0" THEN v ELSE ""

\* line 184: x if x is not None else ""
PctField(v) == IF v # None THEN v ELSE ""

\* lines 176-184: the row written for mem row r
RowOf(r, pid, cmd2) ==
    [ts |-> ts,
     gpu_index |-> IF r.uuid \in DOMAIN uuid_to_index
                   THEN uuid_to_index[r.uuid]
                   ELSE PyOr(PmonGet(pid, "gpu"), ""),
     pid |-> pid,
     cmd |-> PyOr(PyOr(get_cmd_for_pid(cmd2), PmonGet(pid, "cmd")), ""),
     used |-> r.used,
     sm |-> PctField(PmonGet(pid, "sm")),
     mem |-> PctField(PmonGet(pid, "mem"))]

\* ------------------------------------------------------------------ Sampler
\* main, lines 119-147
Start ==
    /\ pc = "idle"
    /\ \E app \in BOOLEAN, md \in {"none", "pid", "match"}, out \in DeviceListOutputs :
        /\ append' = app
        /\ mode' = md
        /\ uuid_to_index' = get_uuid_to_index(out)
    /\ file_exists' = fs_exists
    /\ fs_exists' = TRUE
    /\ run_base' = Len(disk)
    /\ IF HeaderWanted'
         THEN disk' = Append(disk, Header) /\ appended' = <<Header>>
         ELSE disk' = disk /\ appended' = <<>>
    /\ buf' = <<>>
    /\ pc' = "mem"
    /\ ticks' = 1
    /\ UNCHANGED <<devIndex, clock, ts, mem_rows, pmon_by_pid, i, tick_out>>
    /\ UNCHANGED pvars

\* lines 151-152
QueryMem ==
    /\ pc = "mem"
    /\ ts' = clock
    /\ \E rows \in MemListings : mem_rows' = rows
    /\ pc' = "pmon"
    /\ UNCHANGED <<fs_exists, disk, devIndex, clock, append, mode, uuid_to_index,
                   file_exists, buf, pmon_by_pid, i, tick_out, appended,
                   run_base, ticks>>
    /\ UNCHANGED pvars

\* f.close() in the finally clause, and main returns: its locals are gone
Close ==
    /\ disk' = disk \o buf
    /\ buf' = <<>>
    /\ mem_rows' = <<>> /\ pmon_by_pid' = NoMap /\ i' = 1 /\ tick_out' = <<>>
    /\ uuid_to_index' = NoMap /\ mode' = "none"

\* lines 153-164; int(r["pid"]) is outside any try but the outer one, which
\* catches KeyboardInterrupt only
QueryPmon ==
    /\ pc = "pmon"
    /\ \E pmon_rows \in PmonSnapshots :
        IF \E k \in 1..Len(pmon_rows) : PyInt(pmon_rows[k].pid) = ValueError
        THEN /\ pc' = "raised"
             /\ Close
        ELSE /\ pc' = "rows"
             /\ pmon_by_pid' = BuildPmonByPid(pmon_rows)
             /\ i' = 1
             /\ UNCHANGED <<disk, buf, mem_rows, tick_out, uuid_to_index, mode>>
    /\ UNCHANGED <<fs_exists, devIndex, clock, append, file_exists, ts, appended,
                   run_base, ticks>>
    /\ UNCHANGED pvars

\* writer.writerow: the record goes to f's buffer
WriteRecord(rec) ==
    /\ appended' = Append(appended, rec)
    /\ buf' = Append(buf, rec)
    /\ disk' = disk

\* lines 167-184, one iteration
ProcessRow ==
    /\ pc = "rows"
    /\ i <= Len(mem_rows)
    /\ i' = i + 1
    /\ LET r == mem_rows[i]
           pid == PyInt(r.pid)
       IN  IF pid = ValueError
           THEN UNCHANGED <<disk, buf, tick_out, appended>>
           ELSE \E out1 \in (IF mode = "match" THEN PsOutputs ELSE {""}) :
                IF ~match_pid(pid, get_cmd_for_pid(out1))
                THEN UNCHANGED <<disk, buf, tick_out, appended>>
                ELSE \E out2 \in PsOutputs :
                     /\ tick_out' = Append(tick_out, [src |-> i, row |-> RowOf(r, pid, out2)])
                     /\ WriteRecord(<<ts, Len(tick_out) + 1>>)
    /\ UNCHANGED <<fs_exists, devIndex, clock, pc, append, mode, uuid_to_index,
                   file_exists, ts, mem_rows, pmon_by_pid, run_base, ticks>>
    /\ UNCHANGED pvars

Flush_Omitted ==
    /\ pc = "rows"
    /\ i > Len(mem_rows)
    /\ pc' = "sleep"
    /\ UNCHANGED <<fs_exists, disk, buf, devIndex, clock, append, mode, uuid_to_index,
                   file_exists, ts, mem_rows, pmon_by_pid, i, tick_out, appended,
                   run_base, ticks>>
    /\ UNCHANGED pvars

\* line 185
Flush ==
    /\ pc = "rows"
    /\ i > Len(mem_rows)
    /\ disk' = disk \o buf
    /\ buf' = <<>>
    /\ pc' = "sleep"
    /\ UNCHANGED <<fs_exists, devIndex, clock, append, mode, uuid_to_index,
                   file_exists, ts, mem_rows, pmon_by_pid, i, tick_out, appended,
                   run_base, ticks>>
    /\ UNCHANGED pvars

\* line 186 returns and the loop begins again
Wake ==
    /\ pc = "sleep"
    /\ ticks < MaxTicks
    /\ pc' = "mem"
    /\ clock' = clock + 1
    /\ ticks' = ticks + 1
    /\ mem_rows' = <<>> /\ pmon_by_pid' = NoMap /\ i' = 1 /\ tick_out' = <<>>
    /\ UNCHANGED <<fs_exists, disk, devIndex, append, mode, uuid_to_index,
                   file_exists, buf, ts, appended, run_base>>
    /\ UNCHANGED pvars

\* lines 187-190
Interrupt ==
    /\ pc \in {"mem", "pmon", "rows", "sleep"}
    /\ pc' = "interrupted"
    /\ Close
    /\ UNCHANGED <<fs_exists, devIndex, clock, append, file_exists, ts, appended,
                   run_base, ticks>>
    /\ UNCHANGED pvars

\* the driver reassigns indices while the Sampler sleeps
DriverReindex ==
    /\ pc = "sleep"
    /\ \E d \in [DriverUuids -> Indices] : d # devIndex /\ devIndex' = d
    /\ UNCHANGED <<fs_exists, disk, clock, pc, append, mode, uuid_to_index,
                   file_exists, buf, ts, mem_rows, pmon_by_pid, i, tick_out,
                   appended, run_base, ticks>>
    /\ UNCHANGED pvars

SamplerNext ==
    \/ Start
    \/ QueryMem
    \/ QueryPmon
    \/ ProcessRow
    \/ Flush
    \/ Wake
    \/ Interrupt
    \/ DriverReindex

\* ------------------------------------------------------------------ Plotter
\* datetime.fromisoformat and the strptime fallbacks: the instant, in seconds
TimeOk(t) == t \in {"2024-01-01T00:00:01", "2024-01-01 00:00:01", "2024-01-01T00:00:02"}
parse_time(t) ==
    CASE t = "2024-01-01T00:00:01" -> 1
      [] t = "2024-01-01 00:00:01" -> 1
      [] t = "2024-01-01T00:00:02" -> 2

\* float()
FloatOk(x) == x \in {"100", "200", "50", "9"}
FloatOf(x) ==
    CASE x = "100" -> 100
      [] x = "200" -> 200
      [] x = "50" -> 50
      [] x = "9" -> 9

TsTokens == {"2024-01-01T00:00:01", "2024-01-01 00:00:01", "2024-01-01T00:00:02",
             "yesterday", ""}

RichHeader == {"timestamp", "gpu_index", "pid", "cmd", "gpu_mem_mib",
               "sm_util_pct", "mem_util_pct"}
Headers ==
    {RichHeader, {"timestamp", "used_mib"}, {"timestamp", "used_mib", "sys_used_mib"},
     {"timestamp", "used_mib", "sys_used_mib", "cpu_pct"}, {"timestamp", "value"}, {}}

\* the values a column takes in the files considered
ColumnValues(c) ==
    CASE c = "timestamp" -> TsTokens
      [] c = "gpu_index" -> {"0", "1", ""}
      [] c = "gpu_mem_mib" -> {"100", "200", "", "n/a"}
      [] c = "used_mib" -> {"100", "200", ""}
      [] c = "sys_used_mib" -> {"50", ""}
      [] c = "cpu_pct" -> {"9", ""}
      [] c = "pid" -> {"100"}
      [] c = "cmd" -> {"python"}
      [] OTHER -> {""}

\* the data rows csv.DictReader yields under a header
RowsFor(h) ==
    IF h = RichHeader
    THEN [timestamp : ColumnValues("timestamp"), gpu_index : ColumnValues("gpu_index"),
          pid : ColumnValues("pid"), cmd : ColumnValues("cmd"),
          gpu_mem_mib : ColumnValues("gpu_mem_mib"),
          sm_util_pct : ColumnValues("sm_util_pct"),
          mem_util_pct : ColumnValues("mem_util_pct")]
    ELSE {r \in [h -> UNION {ColumnValues(c) : c \in h}] :
            \A c \in h : r[c] \in ColumnValues(c)}

\* row.get(c)
RowGet(row, c) == IF c \in DOMAIN row THEN row[c] ELSE None

\* sorted(s, key=first component): stable
RECURSIVE SortByFirst(_)
SortByFirst(s) ==
    IF s = <<>> THEN <<>>
    ELSE LET rest == SortByFirst(SubSeq(s, 1, Len(s) - 1))
             x == s[Len(s)]
             n == Cardinality({j \in DOMAIN rest : rest[j][1] <= x[1]})
         IN  SubSeq(rest, 1, n) \o <<x>> \o SubSeq(rest, n + 1, Len(rest))

NoSums == [x \in {} |-> 0]
LoadError == [err |-> "ValueError", gpu |-> <<>>, ram |-> <<>>, cpu |-> <<>>]

\* lines 55-69, one row; keys is by_ts_total's keys in insertion order
AccRow(acc, row) ==
    LET t == RowGet(row, "timestamp")
        mem == RowGet(row, "gpu_mem_mib")
        gpu == Strip(PyOr(RowGet(row, "gpu_index"), ""))
    IN  IF t = None \/ t = "" \/ mem = None \/ mem = "" \/ ~FloatOk(mem)
        THEN acc
        ELSE [keys |-> IF t \in DOMAIN acc.total THEN acc.keys ELSE Append(acc.keys, t),
              total |-> (t :> ((IF t \in DOMAIN acc.total THEN acc.total[t] ELSE 0)
                               + FloatOf(mem))) @@ acc.total,
              by_gpu |-> IF gpu # ""
                         THEN (<<t, gpu>> :> ((IF <<t, gpu>> \in DOMAIN acc.by_gpu
                                               THEN acc.by_gpu[<<t, gpu>>] ELSE 0)
                                              + FloatOf(mem))) @@ acc.by_gpu
                         ELSE acc.by_gpu]

RECURSIVE FoldRows(_, _)
FoldRows(rows, acc) ==
    IF rows = <<>> THEN acc ELSE FoldRows(Tail(rows), AccRow(acc, Head(rows)))

\* sorted(all_gpus, key=lambda x: (x == "", x))
GpuOrder == <<"0", "1", "">>

load_series_from_gpu_watch(rows, pg) ==
    LET acc == FoldRows(rows, [keys |-> <<>>, total |-> NoSums, by_gpu |-> NoSums])
    IN  IF \E k \in DOMAIN acc.keys : ~TimeOk(acc.keys[k])
        THEN LoadError
        ELSE LET keyed == [k \in DOMAIN acc.keys |-> <<parse_time(acc.keys[k]), acc.keys[k]>>]
                 times_sorted == SortByFirst(keyed)
                 all_gpus == {x[2] : x \in DOMAIN acc.by_gpu}
                 gpus == SelectSeq(GpuOrder, LAMBDA g : g \in all_gpus)
             IN  IF pg
                 THEN [err |-> "",
                       gpu |-> [n \in DOMAIN gpus |->
                                  [name |-> "GPU " \o gpus[n],
                                   points |-> [j \in DOMAIN times_sorted |->
                                       <<times_sorted[j][1],
                                         IF <<times_sorted[j][2], gpus[n]>> \in DOMAIN acc.by_gpu
                                         THEN acc.by_gpu[<<times_sorted[j][2], gpus[n]>>]
                                         ELSE 0>>]]],
                       ram |-> <<>>, cpu |-> <<>>]
                 ELSE [err |-> "",
                       gpu |-> <<[name |-> "Total",
                                  points |-> [j \in DOMAIN times_sorted |->
                                       <<times_sorted[j][1], acc.total[times_sorted[j][2]]>>]]>>,
                       ram |-> <<>>, cpu |-> <<>>]

\* lines 100-119 for one column: the rows that give the series a point
RECURSIVE Collect(_, _)
Collect(rows, col) ==
    IF rows = <<>> THEN <<>>
    ELSE LET row == Head(rows)
             t == RowGet(row, "timestamp")
             v == RowGet(row, col)
         IN  (IF t # None /\ t # "" /\ v # None /\ v # "" /\ TimeOk(t) /\ FloatOk(v)
              THEN <<<<parse_time(t), FloatOf(v)>>>> ELSE <<>>)
             \o Collect(Tail(rows), col)

load_series_from_mem_only(rows) ==
    LET gpu_series == SortByFirst(Collect(rows, "used_mib"))
        ram_series == SortByFirst(Collect(rows, "sys_used_mib"))
        cpu_series == SortByFirst(Collect(rows, "cpu_pct"))
    IN  [err |-> "",
         gpu |-> <<[name |-> "Total", points |-> gpu_series]>>,
         ram |-> IF ram_series # <<>>
                 THEN <<[name |-> "System", points |-> ram_series]>> ELSE <<>>,
         cpu |-> IF cpu_series # <<>>
                 THEN <<[name |-> "CPU %", points |-> cpu_series]>> ELSE <<>>]

auto_loader(header, rows, pg) ==
    IF header = {}
    THEN [err |-> "", gpu |-> <<[name |-> "Total", points |-> <<>>]>>,
          ram |-> <<>>, cpu |-> <<>>]
    ELSE IF "gpu_mem_mib" \in header THEN load_series_from_gpu_watch(rows, pg)
    ELSE IF "used_mib" \in header THEN load_series_from_mem_only(rows)
    ELSE LoadError

\* do_plot, lines 171-183
AnyPoints(series_map) == \E n \in DOMAIN series_map : series_map[n].points # <<>>

do_plot(gpu_series_map) ==
    IF ~AnyPoints(gpu_series_map) THEN "exit 1: No data points to plot." ELSE "rendered"

Perms(s) ==
    {[j \in DOMAIN s |-> s[f[j]]] :
        f \in {g \in [DOMAIN s -> DOMAIN s] : \A a, b \in DOMAIN s : a # b => g[a] # g[b]}}

NotLoaded == [err |-> "not loaded", gpu |-> <<>>, ram |-> <<>>, cpu |-> <<>>]

\* main, lines 263-272
PlotterLoad ==
    /\ pl_pc = "start"
    /\ loaded' = auto_loader(csv_header, csv_rows, per_gpu)
    /\ IF loaded'.err # ""
         THEN pl_pc' = "done" /\ outcome' = "exit 1: Failed to read CSV"
         ELSE pl_pc' = "loaded" /\ outcome' = outcome
    /\ UNCHANGED <<csv_header, csv_rows, per_gpu, plot_cpu, prev, permuted>>
    /\ UNCHANGED svars

\* main, lines 274-276, and do_plot
PlotterPlot ==
    /\ pl_pc = "loaded"
    /\ \E matplotlib \in BOOLEAN :
        outcome' = IF matplotlib THEN do_plot(loaded.gpu)
                   ELSE "exit 2: matplotlib not available"
    /\ pl_pc' = "done"
    /\ UNCHANGED <<csv_header, csv_rows, per_gpu, plot_cpu, loaded, prev, permuted>>
    /\ UNCHANGED svars

\* the rows of the file are put in another order and the Plotter is run again
ReorderRows ==
    /\ pl_pc = "done"
    /\ ~permuted
    /\ \E p \in Perms(csv_rows) : p # csv_rows /\ csv_rows' = p
    /\ permuted' = TRUE
    /\ prev' = loaded
    /\ loaded' = NotLoaded
    /\ outcome' = ""
    /\ pl_pc' = "start"
    /\ UNCHANGED <<csv_header, per_gpu, plot_cpu>>
    /\ UNCHANGED svars

PlotterNext ==
    \/ PlotterLoad
    \/ PlotterPlot
    \/ ReorderRows

vars == <<svars, pvars>>

\* the Sampler before main() runs, on a path that holds a log or none; no Plotter
Init ==
    /\ fs_exists \in BOOLEAN
    /\ disk = IF fs_exists THEN OldContent ELSE <<>>
    /\ devIndex = [u \in DriverUuids |-> "0"]
    /\ clock = 1
    /\ pc = "idle"
    /\ append = FALSE
    /\ mode = "none"
    /\ uuid_to_index = NoMap
    /\ file_exists = FALSE
    /\ buf = <<>>
    /\ ts = 0
    /\ mem_rows = <<>>
    /\ pmon_by_pid = NoMap
    /\ i = 1
    /\ tick_out = <<>>
    /\ appended = <<>>
    /\ run_base = 0
    /\ ticks = 0
    /\ csv_header = {}
    /\ csv_rows = <<>>
    /\ per_gpu = FALSE
    /\ plot_cpu = FALSE
    /\ pl_pc = "idle"
    /\ loaded = NotLoaded
    /\ prev = NotLoaded
    /\ permuted = FALSE
    /\ outcome = ""

Next == SamplerNext
Spec == Init /\ [][Next]_vars

\* the Plotter before main() runs, on a file of the two schemas; no Sampler
PlotInit ==
    /\ csv_header \in Headers
    /\ csv_rows \in SeqsUpTo(RowsFor(csv_header), MaxCsvRows)
    /\ per_gpu \in BOOLEAN
    /\ plot_cpu \in BOOLEAN
    /\ pl_pc = "start"
    /\ loaded = NotLoaded
    /\ prev = NotLoaded
    /\ permuted = FALSE
    /\ outcome = ""
    /\ fs_exists = FALSE
    /\ disk = <<>>
    /\ devIndex = [u \in DriverUuids |-> "0"]
    /\ clock = 1
    /\ pc = "off"
    /\ append = FALSE
    /\ mode = "none"
    /\ uuid_to_index = NoMap
    /\ file_exists = FALSE
    /\ buf = <<>>
    /\ ts = 0
    /\ mem_rows = <<>>
    /\ pmon_by_pid = NoMap
    /\ i = 1
    /\ tick_out = <<>>
    /\ appended = <<>>
    /\ run_base = 0
    /\ ticks = 0

PlotSpec == PlotInit /\ [][PlotterNext]_vars

\* -------------------------------------------------------------- properties
\* Vocabulary of the properties below.
IntPid(r) == PyInt(r.pid) # ValueError
RowsOfPid(p) == {k \in DOMAIN tick_out : tick_out[k].row.pid = p}
ListedPids == {PyInt(mem_rows[k].pid) : k \in {j \in DOMAIN mem_rows : IntPid(mem_rows[j])}}
InFlight(rec) == rec # Header /\ pc \in {"pmon", "rows"} /\ rec[1] = ts
Flushed == SubSeq(disk, run_base + 1, Len(disk))
Numeric(tok) == tok \in {"0", "5"}
RunPart == SubSeq(disk \o buf, run_base + 1, Len(disk) + Len(buf))
HeaderAt == {k \in DOMAIN RunPart : RunPart[k] = Header}
PointsIn(series_map) == \E n \in DOMAIN series_map : series_map[n].points # <<>>
Ascending(points) ==
    \A a, b \in DOMAIN points : a < b => points[a][1] <= points[b][1]
AllAscending(l) ==
    \A m \in {l.gpu, l.ram, l.cpu} : \A n \in DOMAIN m : Ascending(m[n].points)
Counted(row) ==
    /\ RowGet(row, "timestamp") \notin {None, ""}
    /\ RowGet(row, "gpu_mem_mib") \notin {None, ""}
    /\ FloatOk(RowGet(row, "gpu_mem_mib"))
ObservedDevices ==
    {Strip(PyOr(RowGet(csv_rows[k], "gpu_index"), "")) :
        k \in {j \in DOMAIN csv_rows : Counted(csv_rows[j])}}
RECURSIVE SumAt(_, _)
SumAt(series_map, j) ==
    IF series_map = <<>> THEN 0
    ELSE Head(series_map).points[j][2] + SumAt(Tail(series_map), j)

\* C1: when a tick with no target filter has run its loop, every process id
\* of the memory listing is in exactly one row of the tick, and a process id
\* of the utilization snapshot alone is in none.
C1_OneRowPerListedPid ==
    (pc = "sleep" /\ mode = "none") =>
        /\ \A p \in ListedPids : Cardinality(RowsOfPid(p)) = 1
        /\ \A p \in DOMAIN pmon_by_pid \ ListedPids : RowsOfPid(p) = {}

\* C2: a row's gpu_index is the index the driver reports for the row's uuid
\* in the tick that writes the row (the driver's indices change only while
\* the Sampler sleeps, so during the loop devIndex is what a query made in
\* this tick returns).
C2_IndexOfThisTick ==
    pc = "rows" => \A k \in DOMAIN tick_out :
        LET u == mem_rows[tick_out[k].src].uuid
        IN  u \in DOMAIN uuid_to_index => tick_out[k].row.gpu_index = devIndex[u]

\* C3: no answer of the telemetry queries ends the loop; only an interrupt does.
C3_LoopLeftOnlyByInterrupt == pc # "raised"

\* C4: the flushed part of the log is a prefix of what the run wrote and holds
\* every record of every completed tick; while the Sampler sleeps it holds
\* every record written and nothing is left in the buffer.
C4_FlushedBeforeSleep ==
    pc # "idle" =>
        /\ IsPrefix(Flushed, appended)
        /\ \A k \in DOMAIN appended : ~InFlight(appended[k]) => k <= Len(Flushed)
        /\ pc = "sleep" => (buf = <<>> /\ Flushed = appended)

\* C4 happens: the second tick's rows are on disk when the Sampler sleeps.
C4_Witness ==
    pc = "sleep" /\ ticks = 2 /\ Len(tick_out) = 2 /\ Len(Flushed) >= 3

\* C5: a row's sm_util_pct (mem_util_pct) is empty exactly when the snapshot
\* has no entry for the row's pid or the entry's percentage is not a number;
\* otherwise it is that number, 0 included.
C5_EmptyIffMissing ==
    \A k \in DOMAIN tick_out :
        LET row == tick_out[k].row
            has == row.pid \in DOMAIN pmon_by_pid
        IN  /\ row.sm = "" <=> (~has \/ ~Numeric(pmon_by_pid[row.pid].raw_sm))
            /\ row.mem = "" <=> (~has \/ ~Numeric(pmon_by_pid[row.pid].raw_mem))
            /\ row.sm # "" => row.sm = pmon_by_pid[row.pid].raw_sm
            /\ row.mem # "" => row.mem = pmon_by_pid[row.pid].raw_mem

\* C5 happens: one tick writes a row with the number 0 and a row whose pid
\* the snapshot does not have.
C5_Witness ==
    \E j, k \in DOMAIN tick_out :
        /\ tick_out[j].row.sm = "0" /\ tick_out[j].row.mem = "5"
        /\ tick_out[k].row.sm = "" /\ tick_out[k].row.pid \notin DOMAIN pmon_by_pid

C9_HeaderRule ==
    pc # "idle" => HeaderAt = (IF ~file_exists \/ ~append THEN {1} ELSE {})
C9_AppendOnly == IsPrefix(disk, disk')

\* C9: the run's part of the log begins with the header exactly when the file
\* did not exist or the run does not append; no other record of the run is a
\* header; no step removes or changes a record already in the file.
C9_HeaderOnceAppendOnly == [](C9_HeaderRule) /\ [][C9_AppendOnly]_vars

\* C9 happens: a run appending to an existing file has slept after two rows
\* and the file is its old content followed by the rows, with no header.
C9_Witness ==
    /\ pc = "sleep" /\ file_exists /\ append
    /\ disk = OldContent \o appended /\ Len(appended) = 2

\* C6: the Plotter ends with "No data points to plot" exactly when no panel
\* it draws (GPU memory, system memory, CPU percent when asked for) has a point.
C6_NoDataIffNoPoints ==
    (pl_pc = "done" /\ outcome \in {"rendered", "exit 1: No data points to plot."}) =>
        (outcome = "exit 1: No data points to plot."
            <=> ~(PointsIn(loaded.gpu) \/ PointsIn(loaded.ram)
                  \/ (plot_cpu /\ PointsIn(loaded.cpu))))

\* C7: the rows of a file put in another order load to the same series, each
\* ascending in time.
C7_RowOrderIndependent ==
    (permuted /\ pl_pc \in {"loaded", "done"}) =>
        (loaded = prev /\ AllAscending(loaded))

\* C8: with the per-device breakdown there is one series per device index of
\* the rows that count, the empty index included and last, and at every
\* timestamp the series add up to the Total of the aggregation without breakdown.
C8_PerDeviceAddsUp ==
    (csv_header = RichHeader /\ per_gpu /\ pl_pc \in {"loaded", "done"} /\ loaded.err = "") =>
        LET total == load_series_from_gpu_watch(csv_rows, FALSE).gpu[1].points
        IN  /\ {loaded.gpu[n].name : n \in DOMAIN loaded.gpu}
                    = {"GPU " \o g : g \in ObservedDevices}
            /\ Len(loaded.gpu) = Cardinality(ObservedDevices)
            /\ \A n \in DOMAIN loaded.gpu :
                    loaded.gpu[n].name = "GPU " => n = Len(loaded.gpu)
            /\ \A j \in DOMAIN total : SumAt(loaded.gpu, j) = total[j][2]

\* C10: with a pattern filter, the cmd of every row written matches the pattern.
C10_RowCmdMatches ==
    mode = "match" => \A k \in DOMAIN tick_out : MatcherSearch(tick_out[k].row.cmd)

====
